---- MODULE Spec2Model ----
(***************************************************************************)
(* S2GeometryLayer (src/layers/s2-geometry-layer/s2-geometry-layer.js):    *)
(* the memoized id accessor getS2Id and the incremental data binding of    *)
(* formatLayerData.                                                        *)
(*                                                                         *)
(* JavaScript object identity is modelled by explicit references: an       *)
(* accessor function instance is its index in accs, a derived dataset      *)
(* (array) is its index in heap, a column binding object is its index in   *)
(* Bindings.  Reference 0 is JavaScript undefined.  Arrays that neither    *)
(* the caller nor the last call can reach any more are garbage and are     *)
(* dropped from heap; references are never handed out twice.               *)
(*                                                                         *)
(* Six specifications share the state and the actions and differ in the    *)
(* inputs the caller draws: Spec (the binder under every input),           *)
(* SpecReuse (longer chains of calls on one dataset), SpecChannels (calls  *)
(* between changes of the channel fields), SpecMemo (getS2Id called        *)
(* directly), SpecInvoke (the returned functions invoked within a cycle)   *)
(* and SpecDiscipline (chains with calls that raise).                      *)
(***************************************************************************)
EXTENDS Integers, Sequences, FiniteSets, TLC

VARIABLES config, memo, accs, heap, dataToFeature, prev, call, ncalls, got

vars == <<config, memo, accs, heap, dataToFeature, prev, call, ncalls, got>>

----------------------------------------------------------------------------
(* Bounds of the model *)

\* number of formatLayerData calls in one behaviour of Spec, SpecChannels
\* and SpecInvoke
MaxCalls == 2
\* number of formatLayerData calls in one behaviour of SpecReuse and
\* SpecDiscipline
MaxChain == 3
\* number of distinct resolver invocations recorded within one cycle
MaxInvoke == 2

----------------------------------------------------------------------------
(* Values *)

\* JavaScript undefined, for a cell value read from a row
Undefined == -1
\* a channel field that is not set (config.colorField === null)
Null == 0
\* a reference or centroid that is undefined
None == 0

\* the outcome of a call that raised a TypeError instead of returning
TypeError == -1

\* Column binding objects (config.columns candidates).  Each is a distinct
\* object; binding 1 and binding 2 are structurally equal.  fieldIdx -1 is the
\* unbound s2_id column.  The last object has no s2_id property at all.
Bindings ==
  << [s2_id |-> [value |-> "s2_a", fieldIdx |-> 0]],
     [s2_id |-> [value |-> "s2_a", fieldIdx |-> 0]],
     [s2_id |-> [value |-> "s2_b", fieldIdx |-> 1]],
     [s2_id |-> [value |-> "none", fieldIdx |-> -1]],
     [lat |-> [value |-> "lat", fieldIdx |-> 0]] >>

\* every object that can be passed as columns
ColumnObjects == 1..Len(Bindings)

\* ({s2_id}) => ... : the destructured s2_id is defined
HasS2IdRole(columns) == "s2_id" \in DOMAIN Bindings[columns]

\* the objects that carry the s2_id role
BindingIds == { b \in ColumnObjects : HasS2IdRole(b) }

\* Raw datasets (allData): rows of two cells.  Cell values 1 and 2 are cell
\* identifiers that have geometry, 0 is an identifier without geometry.
Datasets ==
  { << <<1, 0>>, <<0, 2>> >>,
    << <<2, 2>> >> }

\* the increasing sequence of the members of a set of row indices
RECURSIVE Ascending(_)
Ascending(S) ==
  IF S = {} THEN <<>>
  ELSE LET m == CHOOSE x \in S : \A y \in S : y <= x
       IN Append(Ascending(S \ {m}), m)

\* filteredIndex arguments: the 0-based indices of the rows that pass the
\* filters, in increasing order
FilteredIndexes == { Ascending(S) : S \in SUBSET (0..1) }

\* the layer's static color (config.color) and the color range (hex)
StaticColor == <<18, 147, 154>>
ColorRangeHex == <<16711680, 65280>>
SizeRange == <<0, 500>>
CoverageRange == <<0, 1>>
\* coverageDomain: [0, 1] of getDefaultLayerConfig
CoverageDomain == <<0, 1>>
\* the domain of the color and the size channel, which the base layer's
\* config supplies: the span of the values of the channel's column
ChannelDomain == <<0, 2>>

----------------------------------------------------------------------------
(* Accessor Memoizer *)

\* (mutant) the cache is keyed by the identity of the binding object
S2IdResolver_Identity(columns) == columns

\* (mutant) every binding resolves to one cache key
S2IdResolver_OneKey(columns) == 0

\* S2IdResolver = ({s2_id}) => s2_id.fieldIdx : the memoize cache key
S2IdResolver(columns) == Bindings[columns].s2_id.fieldIdx

\* S2IdAccessor = ({s2_id}) => d => d[s2_id.fieldIdx] : a new function
\* instance closing over the s2_id object of the binding it was created for
S2IdAccessor(columns) == [s2_id |-> columns]

\* d => d[s2_id.fieldIdx], applied to row d by accessor instance a of store A
ApplyAccessor(A, a, d) ==
  LET idx == Bindings[A[a].s2_id].s2_id.fieldIdx
  IN IF idx + 1 \in DOMAIN d THEN d[idx + 1] ELSE Undefined

\* memoize(func, resolver): the cache m maps the keys it holds to accessor
\* instances, A is the store of the instances created so far.
\* Cache miss: func(columns) creates an instance, cached under the key
MemoMiss(m, A, columns) ==
  LET key == S2IdResolver(columns)
  IN [memo |-> [k \in DOMAIN m \cup {key} |-> IF k = key THEN Len(A) + 1 ELSE m[k]],
      accs |-> Append(A, S2IdAccessor(columns)),
      getS2Id |-> Len(A) + 1,
      threw |-> FALSE]

\* (mutant) no memoization: every call creates an instance
getS2IdCall_NoMemo(m, A, columns) == MemoMiss(m, A, columns)

\* this.getS2Id(columns): the resolver runs first and raises a TypeError when
\* s2_id is undefined (s2_id.fieldIdx); otherwise the cached instance if the
\* key is in the cache
getS2IdCall(m, A, columns) ==
  IF ~HasS2IdRole(columns)
  THEN [memo |-> m, accs |-> A, getS2Id |-> TypeError, threw |-> TRUE]
  ELSE LET key == S2IdResolver(columns)
       IN IF key \in DOMAIN m
          THEN [memo |-> m, accs |-> A, getS2Id |-> m[key], threw |-> FALSE]
          ELSE MemoMiss(m, A, columns)

----------------------------------------------------------------------------
(* Geometry cache (this.dataToFeature), owned by the geometry component *)

\* centroid of a cell identifier; None when the identifier has no geometry
CentroidOf(id) == IF id \in {1, 2} THEN 100 + id ELSE None

\* this.updateLayerMeta(allData, getS2Id): recompute centroids and the
\* hexagon handles for the full raw dataset with the given accessor
updateLayerMeta(geo, A, allData, getS2Id) ==
  [centroids |-> [k \in 1..Len(allData) |-> CentroidOf(ApplyAccessor(A, getS2Id, allData[k]))],
   hexagonVertices |-> geo.hexagonVertices + 1,
   hexagonCenter |-> geo.hexagonCenter + 1,
   allData |-> allData,
   getS2Id |-> getS2Id]

\* this.dataToFeature.centroids[index]
CentroidAt(centroids, index) ==
  IF index + 1 \in DOMAIN centroids THEN centroids[index + 1] ELSE None

----------------------------------------------------------------------------
(* Channel scales *)

NoScale == [type |-> "none", domain |-> <<>>, range |-> <<>>]

Truthy(scale) == scale.type # "none"

hexToRgb(c) == << c \div 65536, (c \div 256) % 256, c % 256 >>

\* this.getVisChannelScale(scale, domain, range, fixed)
getVisChannelScale(scale, domain, range, fixed) ==
  [type |-> scale, domain |-> domain, range |-> range]

\* (mutant) a scale is built whether or not the field is set
ChannelScale_Always(field, scale, domain, range) ==
  getVisChannelScale(scale, domain, range, 0)

\* colorField && this.getVisChannelScale(...)
ChannelScale(field, scale, domain, range) ==
  IF field # Null THEN getVisChannelScale(scale, domain, range, 0) ELSE NoScale

\* position of value v of the domain in a range of n steps
ScaleStep(domain, n, v) ==
  IF domain[2] = domain[1] THEN 1
  ELSE LET k == 1 + ((v - domain[1]) * n) \div (domain[2] - domain[1])
       IN IF k < 1 THEN 1 ELSE IF k > n THEN n ELSE k

\* scale(value): quantize over a color range, linear over a numeric range
ApplyScale(scale, v) ==
  IF scale.type = "quantize"
  THEN scale.range[ScaleStep(scale.domain, Len(scale.range), v)]
  ELSE IF scale.domain[2] = scale.domain[1] THEN scale.range[1]
  ELSE scale.range[1] +
       ((v - scale.domain[1]) * (scale.range[2] - scale.range[1]))
         \div (scale.domain[2] - scale.domain[1])

\* this.getEncodedChannelValue(scale, data, field, defaultValue)
getEncodedChannelValue(scale, data, field, defaultValue) ==
  IF field \in DOMAIN data /\ data[field] # Undefined
  THEN ApplyScale(scale, data[field])
  ELSE defaultValue

----------------------------------------------------------------------------
(* Encoded-value resolvers returned in the frame.  A resolver is either a
   function d => this.getEncodedChannelValue(scale, d.data, field, default)
   or the constant the code puts in its place. *)

NoValueColor == <<0, 0, 0>>

\* sScale ? d => ... : 0
getElevationOf(sScale, sizeField) ==
  IF Truthy(sScale)
  THEN [kind |-> "function", scale |-> sScale, field |-> sizeField, value |-> 0]
  ELSE [kind |-> "constant", scale |-> NoScale, field |-> Null, value |-> 0]

\* cScale ? d => ... : color
getColorOf(cScale, colorField, color) ==
  IF Truthy(cScale)
  THEN [kind |-> "function", scale |-> cScale, field |-> colorField, value |-> NoValueColor]
  ELSE [kind |-> "constant", scale |-> NoScale, field |-> Null, value |-> color]

\* (mutant) the coverage fallback is 0
getCoverageOf_Zero(coScale, coverageField) ==
  IF Truthy(coScale)
  THEN [kind |-> "function", scale |-> coScale, field |-> coverageField, value |-> 0]
  ELSE [kind |-> "constant", scale |-> NoScale, field |-> Null, value |-> 0]

\* coScale ? d => ... : 1
getCoverageOf(coScale, coverageField) ==
  IF Truthy(coScale)
  THEN [kind |-> "function", scale |-> coScale, field |-> coverageField, value |-> 0]
  ELSE [kind |-> "constant", scale |-> NoScale, field |-> Null, value |-> 1]

\* whether resolver(record) is a call the language allows
Callable(resolver) == resolver.kind = "function"

\* the value the rendering boundary obtains from an accessor prop for record
\* d: the function's result, or the constant itself
Resolve(resolver, d) ==
  IF resolver.kind = "function"
  THEN getEncodedChannelValue(resolver.scale, d.data, resolver.field, resolver.value)
  ELSE resolver.value

----------------------------------------------------------------------------
(* Incremental data binder: formatLayerData *)

\* a frame as returned by formatLayerData; NoFrame is oldLayerData undefined
NoResolver == [kind |-> "constant", scale |-> NoScale, field |-> Null, value |-> 0]

NoFrame ==
  [defined |-> FALSE, data |-> None, getS2Id |-> None,
   getElevation |-> NoResolver,
   getColor |-> [NoResolver EXCEPT !.value = NoValueColor],
   getCoverage |-> NoResolver,
   hexagonVertices |-> 0, hexagonCenter |-> 0]

\* (mutant) geometry is recomputed for the first frame only
NeedLayerMeta_FirstOnly(oldLayerData, getS2Id) == ~oldLayerData.defined

\* (mutant) geometry is recomputed in every call
NeedLayerMeta_Always(oldLayerData, getS2Id) == TRUE

\* !oldLayerData || oldLayerData.getS2Id !== getS2Id
NeedLayerMeta(oldLayerData, getS2Id) ==
  ~oldLayerData.defined \/ oldLayerData.getS2Id # getS2Id

\* (mutant) the reuse test without the sameData flag
ReuseCond_NoSameData(oldLayerData, opt, getS2Id) ==
  /\ oldLayerData.defined
  /\ oldLayerData.data # None
  /\ oldLayerData.getS2Id = getS2Id

\* (mutant) the reuse test without the accessor comparison
ReuseCond_NoAccessor(oldLayerData, opt, getS2Id) ==
  /\ oldLayerData.defined
  /\ oldLayerData.data # None
  /\ opt.sameData

\* oldLayerData && oldLayerData.data && opt.sameData &&
\* oldLayerData.getS2Id === getS2Id   (an array, empty or not, is truthy)
ReuseCond(oldLayerData, opt, getS2Id) ==
  /\ oldLayerData.defined
  /\ oldLayerData.data # None
  /\ opt.sameData
  /\ oldLayerData.getS2Id = getS2Id

\* (mutant) the callback pushes a record whether or not there is a centroid
ReduceStep_NoCentroidTest(st, allData, index, i, A, getS2Id, centroids) ==
  IF st.threw THEN st
  ELSE IF index + 1 \notin DOMAIN allData
  THEN [st EXCEPT !.threw = TRUE]
  ELSE [st EXCEPT !.accu = Append(@, [index |-> i,
                                      data |-> allData[index + 1],
                                      id |-> ApplyAccessor(A, getS2Id, allData[index + 1]),
                                      centroid |-> CentroidAt(centroids, index)]),
                  !.reads = @ + 1]

\* (mutant) the callback numbers the records by their place in the output
ReduceStep_OutputIndex(st, allData, index, i, A, getS2Id, centroids) ==
  IF st.threw THEN st
  ELSE IF index + 1 \notin DOMAIN allData
  THEN [st EXCEPT !.threw = TRUE]
  ELSE IF CentroidAt(centroids, index) # None
  THEN [st EXCEPT !.accu = Append(@, [index |-> Len(st.accu),
                                      data |-> allData[index + 1],
                                      id |-> ApplyAccessor(A, getS2Id, allData[index + 1]),
                                      centroid |-> CentroidAt(centroids, index)]),
                  !.reads = @ + 1]
  ELSE [st EXCEPT !.reads = @ + 1]

\* the reduce callback (accu, index, i) => {...}; st.threw records the
\* TypeError of getS2Id(undefined) when allData has no row at index
ReduceStep(st, allData, index, i, A, getS2Id, centroids) ==
  IF st.threw THEN st
  ELSE IF index + 1 \notin DOMAIN allData
  THEN [st EXCEPT !.threw = TRUE]
  ELSE LET id == ApplyAccessor(A, getS2Id, allData[index + 1])
           centroid == CentroidAt(centroids, index)
       IN IF centroid # None
          THEN [st EXCEPT !.accu = Append(@, [index |-> i,
                                              data |-> allData[index + 1],
                                              id |-> id,
                                              centroid |-> centroid]),
                          !.reads = @ + 1]
          ELSE [st EXCEPT !.reads = @ + 1]

\* filteredIndex.reduce(callback, []) from position k (1-based) on
RECURSIVE ReduceFrom(_, _, _, _, _, _, _)
ReduceFrom(st, k, allData, filteredIndex, A, getS2Id, centroids) ==
  IF k > Len(filteredIndex) THEN st
  ELSE ReduceFrom(ReduceStep(st, allData, filteredIndex[k], k - 1, A, getS2Id, centroids),
                  k + 1, allData, filteredIndex, A, getS2Id, centroids)

Rebuild(allData, filteredIndex, A, getS2Id, centroids) ==
  ReduceFrom([threw |-> FALSE, accu |-> <<>>, reads |-> 0], 1,
             allData, filteredIndex, A, getS2Id, centroids)

\* the array store: at[ref] is the content of the array with reference ref,
\* next the reference the next new array gets
NewArray(h, content) ==
  [next |-> h.next + 1,
   at |-> [ref \in DOMAIN h.at \cup {h.next} |->
             IF ref = h.next THEN content ELSE h.at[ref]]]

\* (mutant) reuse hands out a copy of the previous array
BindData_Copy(h, centroids, A, allData, filteredIndex, oldLayerData, opt, getS2Id) ==
  IF ReuseCond(oldLayerData, opt, getS2Id)
  THEN [threw |-> FALSE, reused |-> TRUE,
        heap |-> NewArray(h, h.at[oldLayerData.data]),
        data |-> h.next, reads |-> 0]
  ELSE LET r == Rebuild(allData, filteredIndex, A, getS2Id, centroids)
       IN IF r.threw
          THEN [threw |-> TRUE, reused |-> FALSE, heap |-> h,
                data |-> None, reads |-> r.reads]
          ELSE [threw |-> FALSE, reused |-> FALSE, heap |-> NewArray(h, r.accu),
                data |-> h.next, reads |-> r.reads]

\* (mutant) reuse only while the filter still yields the previous dataset
BindData_Strict(h, centroids, A, allData, filteredIndex, oldLayerData, opt, getS2Id) ==
  LET r == Rebuild(allData, filteredIndex, A, getS2Id, centroids)
  IN IF ReuseCond(oldLayerData, opt, getS2Id) /\ ~r.threw
        /\ r.accu = h.at[oldLayerData.data]
     THEN [threw |-> FALSE, reused |-> TRUE, heap |-> h,
           data |-> oldLayerData.data, reads |-> 0]
     ELSE IF r.threw
          THEN [threw |-> TRUE, reused |-> FALSE, heap |-> h,
                data |-> None, reads |-> r.reads]
          ELSE [threw |-> FALSE, reused |-> FALSE, heap |-> NewArray(h, r.accu),
                data |-> h.next, reads |-> r.reads]

\* let data; if (...) data = oldLayerData.data; else data = reduce(...)
\* h is the store of arrays; a rebuild allocates a new one
BindData(h, centroids, A, allData, filteredIndex, oldLayerData, opt, getS2Id) ==
  IF ReuseCond(oldLayerData, opt, getS2Id)
  THEN [threw |-> FALSE, reused |-> TRUE, heap |-> h,
        data |-> oldLayerData.data, reads |-> 0]
  ELSE LET r == Rebuild(allData, filteredIndex, A, getS2Id, centroids)
       IN IF r.threw
          THEN [threw |-> TRUE, reused |-> FALSE, heap |-> h,
                data |-> None, reads |-> r.reads]
          ELSE [threw |-> FALSE, reused |-> FALSE, heap |-> NewArray(h, r.accu),
                data |-> h.next, reads |-> r.reads]

\* (mutant) the geometry component is never told
MetaStep_Skip(geo, A, allData, oldLayerData, getS2Id) == geo

\* (mutant) the binder remembers the accessor it last recomputed with and
\* does not recompute for it again
MetaStep_Cached(geo, A, allData, oldLayerData, getS2Id) ==
  IF NeedLayerMeta(oldLayerData, getS2Id) /\ geo.getS2Id # getS2Id
  THEN updateLayerMeta(geo, A, allData, getS2Id)
  ELSE geo

\* (mutant) the geometry is recomputed with the accessor of the frame given
MetaStep_OldAccessor(geo, A, allData, oldLayerData, getS2Id) ==
  IF NeedLayerMeta(oldLayerData, getS2Id)
  THEN updateLayerMeta(geo, A, allData,
                       IF oldLayerData.defined THEN oldLayerData.getS2Id ELSE getS2Id)
  ELSE geo

\* if (!oldLayerData || ...) this.updateLayerMeta(allData, getS2Id)
MetaStep(geo, A, allData, oldLayerData, getS2Id) ==
  IF NeedLayerMeta(oldLayerData, getS2Id)
  THEN updateLayerMeta(geo, A, allData, getS2Id)
  ELSE geo

\* the order in which the call touches the geometry component
CallEvents(signalled, reads, threw) ==
  (IF signalled THEN <<"updateLayerMeta">> ELSE <<>>)
    \o [k \in 1..reads |-> "centroid"]
    \o (IF threw THEN <<"throw">> ELSE <<"handles">>)

\* formatLayerData(_, allData, filteredIndex, oldLayerData, opt) on a layer
\* with config cfg, memoize cache m, accessor store A, array store h and
\* geometry cache geo
formatLayerData(cfg, m, A, h, geo, allData, filteredIndex, oldLayerData, opt) ==
  LET colors == cfg.visConfig.colorRange.colors
      cScale == ChannelScale(cfg.colorField, cfg.colorScale, cfg.colorDomain,
                             [k \in DOMAIN colors |-> hexToRgb(colors[k])])
      sScale == ChannelScale(cfg.sizeField, cfg.sizeScale, cfg.sizeDomain,
                             cfg.visConfig.sizeRange)
      coScale == ChannelScale(cfg.coverageField, cfg.coverageScale, cfg.coverageDomain,
                              cfg.visConfig.coverageRange)
      r == getS2IdCall(m, A, cfg.columns)
      getS2Id == r.getS2Id
      geo1 == IF r.threw THEN geo
              ELSE MetaStep(geo, r.accs, allData, oldLayerData, getS2Id)
      b == IF r.threw
           THEN [threw |-> TRUE, reused |-> FALSE, heap |-> h, data |-> None,
                 reads |-> 0]
           ELSE BindData(h, geo1.centroids, r.accs, allData, filteredIndex,
                         oldLayerData, opt, getS2Id)
      signalled == geo1.hexagonVertices # geo.hexagonVertices
  IN [memo |-> r.memo, accs |-> r.accs, heap |-> b.heap, dataToFeature |-> geo1,
      threw |-> b.threw, reused |-> b.reused, signalled |-> signalled,
      getS2Id |-> getS2Id,
      events |-> CallEvents(signalled, b.reads, b.threw),
      frame |-> IF b.threw THEN NoFrame
                ELSE [defined |-> TRUE,
                      data |-> b.data,
                      getElevation |-> getElevationOf(sScale, cfg.sizeField),
                      getColor |-> getColorOf(cScale, cfg.colorField, cfg.color),
                      getS2Id |-> getS2Id,
                      getCoverage |-> getCoverageOf(coScale, cfg.coverageField),
                      hexagonVertices |-> geo1.hexagonVertices,
                      hexagonCenter |-> geo1.hexagonCenter]]

----------------------------------------------------------------------------
(* State machine of one layer instance and its caller *)

\* getDefaultLayerConfig: the base layer's config (columns, color and the
\* color and size channels) with coverageField: null, coverageDomain: [0, 1]
\* and coverageScale: 'linear' added; no channel field is set
DefaultConfig ==
  [columns |-> 1,
   color |-> StaticColor,
   colorField |-> Null, colorScale |-> "quantize", colorDomain |-> ChannelDomain,
   sizeField |-> Null, sizeScale |-> "linear", sizeDomain |-> ChannelDomain,
   coverageField |-> Null, coverageScale |-> "linear", coverageDomain |-> CoverageDomain,
   visConfig |-> [sizeRange |-> SizeRange,
                  colorRange |-> [colors |-> ColorRangeHex],
                  coverageRange |-> CoverageRange]]

\* fields a channel can be set to: none, or column 2 of the rows
ChannelFields == {Null, 2}

\* the inputs from which the array of the caller's frame was built
NoBuild == [allData |-> <<>>, filteredIndex |-> <<>>, centroids |-> <<>>, getS2Id |-> None]

\* call records the last formatLayerData call: its inputs, what it did and
\* returned; chain counts the calls that reused one after another; madeBy is
\* the binding under which the caller's frame was returned and oldMadeBy the
\* one under which the frame passed as oldLayerData was; seen holds the
\* invocations of the frame's functions made since; disciplined tells whether
\* every call so far was given no frame or the frame of the call before it
NoCall ==
  [outcome |-> "none", allData |-> <<>>, filteredIndex |-> <<>>,
   oldLayerData |-> NoFrame, opt |-> [sameData |-> FALSE], columns |-> 0,
   getS2Id |-> None, signalled |-> FALSE, reused |-> FALSE, events |-> <<>>,
   frame |-> NoFrame, chain |-> 0, config |-> DefaultConfig,
   madeBy |-> 0, oldMadeBy |-> 0, built |-> NoBuild, seen |-> {},
   disciplined |-> TRUE]

Init ==
  /\ config = DefaultConfig
  /\ memo = [k \in {} |-> None]
  /\ accs = <<>>
  /\ heap = [next |-> 1, at |-> <<>>]
  /\ dataToFeature = [centroids |-> <<>>, hexagonVertices |-> 0, hexagonCenter |-> 0,
                      allData |-> <<>>, getS2Id |-> None]
  /\ prev = NoFrame
  /\ call = NoCall
  /\ ncalls = 0
  /\ got = [b \in ColumnObjects |-> None]

\* what the caller may pass as oldLayerData: nothing, the frame the last
\* returning call gave, or that frame without its data
OldFrames ==
  {NoFrame} \cup (IF prev.defined THEN {prev, [prev EXCEPT !.data = None]} ELSE {})

\* arrays unreachable from the given frames are garbage
Collect(h, live) ==
  LET refs == { f.data : f \in live } \cap DOMAIN h.at
  IN [next |-> h.next, at |-> [ref \in refs |-> h.at[ref]]]

\* the caller passes the frame of the immediately preceding call, asks for
\* reuse and has not changed the column binding
Chained(oldLayerData, opt) ==
  /\ call.outcome = "returned"
  /\ oldLayerData = call.frame
  /\ opt.sameData
  /\ config.columns = call.columns

\* the caller passes no frame or the frame the immediately preceding call
\* returned
Disciplined(oldLayerData) ==
  \/ oldLayerData = NoFrame
  \/ call.outcome = "returned" /\ oldLayerData = call.frame

\* a call of layer.formatLayerData; the caller stores the frame it returns
FormatLayerData(allData, filteredIndex, oldLayerData, opt) ==
  LET r == formatLayerData(config, memo, accs, heap, dataToFeature,
                           allData, filteredIndex, oldLayerData, opt)
      newPrev == IF r.threw THEN prev ELSE r.frame
  IN /\ memo' = r.memo
     /\ accs' = r.accs
     /\ heap' = Collect(r.heap, {newPrev, oldLayerData})
     /\ dataToFeature' = r.dataToFeature
     /\ prev' = newPrev
     /\ got' = [got EXCEPT ![config.columns] = r.getS2Id]
     /\ call' = [outcome |-> IF r.threw THEN "threw" ELSE "returned",
                 allData |-> allData, filteredIndex |-> filteredIndex,
                 oldLayerData |-> oldLayerData, opt |-> opt,
                 columns |-> config.columns,
                 getS2Id |-> r.getS2Id, signalled |-> r.signalled,
                 reused |-> r.reused, events |-> r.events, frame |-> r.frame,
                 chain |-> IF Chained(oldLayerData, opt) /\ ~r.threw
                           THEN call.chain + 1 ELSE 0,
                 config |-> config,
                 madeBy |-> IF r.threw THEN call.madeBy ELSE config.columns,
                 oldMadeBy |-> IF oldLayerData.defined THEN call.madeBy ELSE 0,
                 built |-> IF r.threw \/ r.reused THEN call.built
                           ELSE [allData |-> allData, filteredIndex |-> filteredIndex,
                                 centroids |-> r.dataToFeature.centroids,
                                 getS2Id |-> r.getS2Id],
                 seen |-> {},
                 disciplined |-> call.disciplined /\ Disciplined(oldLayerData)]
     /\ ncalls' = ncalls + 1
     /\ UNCHANGED config

\* the column binding of the layer is replaced (config.columns)
UpdateColumns(b) ==
  /\ b # config.columns
  /\ config' = [config EXCEPT !.columns = b]
  /\ UNCHANGED <<memo, accs, heap, dataToFeature, prev, call, ncalls, got>>

\* a visual channel's field is set or cleared
UpdateColorField(f) ==
  /\ f # config.colorField
  /\ config' = [config EXCEPT !.colorField = f]
  /\ UNCHANGED <<memo, accs, heap, dataToFeature, prev, call, ncalls, got>>

UpdateSizeField(f) ==
  /\ f # config.sizeField
  /\ config' = [config EXCEPT !.sizeField = f]
  /\ UNCHANGED <<memo, accs, heap, dataToFeature, prev, call, ncalls, got>>

UpdateCoverageField(f) ==
  /\ f # config.coverageField
  /\ config' = [config EXCEPT !.coverageField = f]
  /\ UNCHANGED <<memo, accs, heap, dataToFeature, prev, call, ncalls, got>>

\* the four functions of a frame that the rendering boundary may invoke
ResolverNames == {"getElevation", "getColor", "getCoverage", "getS2Id"}

\* d => d[s2_id.fieldIdx] applied to a derived record {index, data, id,
\* centroid}: the object has no property named by a field index
ApplyAccessorToRecord(A, a, d) == Undefined

\* resolver(d) for a channel entry of the frame: the arrow function
\* d => this.getEncodedChannelValue(scale, d.data, field, default) returns
\* the encoded value; the entry of an inactive channel is the constant, and
\* calling a number or an array raises a TypeError
CallResolver(resolver, d) ==
  IF Callable(resolver)
  THEN [threw |-> FALSE,
        value |-> getEncodedChannelValue(resolver.scale, d.data, resolver.field,
                                         resolver.value)]
  ELSE [threw |-> TRUE, value |-> TypeError]

\* the outcome of frame[name](d) for derived record d: whether the call
\* raised, and the value returned as a tuple of numbers (a color is three
\* numbers, any other value one; none when the call raised)
InvokeResolver(frame, A, name, d) ==
  LET r == CASE name = "getElevation" -> CallResolver(frame.getElevation, d)
             [] name = "getColor" -> CallResolver(frame.getColor, d)
             [] name = "getCoverage" -> CallResolver(frame.getCoverage, d)
             [] name = "getS2Id" ->
                  [threw |-> FALSE,
                   value |-> ApplyAccessorToRecord(A, frame.getS2Id, d)]
  IN [threw |-> r.threw,
      value |-> IF r.threw THEN <<>>
                ELSE IF name = "getColor" THEN r.value ELSE << r.value >>]

\* a function of the frame just returned is invoked on record j of its
\* dataset and the caller notes the outcome in call.seen.  Lines 48 and
\* 185-195 assign nothing, and a call that raises has done nothing; the
\* base layer's getEncodedChannelValue is taken to return a value only
Invoke(name, j) ==
  /\ call.outcome = "returned"
  /\ j \in DOMAIN heap.at[call.frame.data]
  /\ LET r == InvokeResolver(call.frame, accs, name, heap.at[call.frame.data][j])
         e == [resolver |-> name, record |-> j, threw |-> r.threw,
               value |-> r.value]
     IN /\ e \notin call.seen
        /\ Cardinality(call.seen) < MaxInvoke
        /\ call' = [call EXCEPT !.seen = @ \cup {e}]
  /\ UNCHANGED <<config, memo, accs, heap, dataToFeature, prev, ncalls, got>>

\* a direct call layer.getS2Id(columns) with any binding
GetS2Id(b) ==
  /\ LET r == getS2IdCall(memo, accs, b)
     IN /\ memo' = r.memo
        /\ accs' = r.accs
        /\ got' = [got EXCEPT ![b] = r.getS2Id]
  /\ got'[b] # got[b]
  /\ UNCHANGED <<config, heap, dataToFeature, prev, call, ncalls>>

\* The binder: calls with every input, between changes of the binding
Next ==
  \/ /\ ncalls < MaxCalls
     /\ \E allData \in Datasets, filteredIndex \in FilteredIndexes,
           oldLayerData \in OldFrames, sameData \in BOOLEAN :
          FormatLayerData(allData, filteredIndex, oldLayerData, [sameData |-> sameData])
  \/ \E b \in BindingIds : UpdateColumns(b)

Spec == Init /\ [][Next]_vars

\* Chains of calls on one dataset: the caller passes the frame it got or
\* none and changes the filter and the binding freely
NextReuse ==
  \/ /\ ncalls < MaxChain
     /\ \E filteredIndex \in FilteredIndexes, oldLayerData \in {NoFrame, prev},
           sameData \in BOOLEAN :
          FormatLayerData(<< <<1, 0>>, <<0, 2>> >>, filteredIndex, oldLayerData,
                          [sameData |-> sameData])
  \/ \E b \in {1, 2, 3} : UpdateColumns(b)

SpecReuse == Init /\ [][NextReuse]_vars

\* The visual channels: calls between changes of the channel fields
NextChannels ==
  \/ /\ ncalls < MaxCalls
     /\ \E allData \in Datasets, oldLayerData \in {NoFrame, prev}, sameData \in BOOLEAN :
          FormatLayerData(allData, <<0>>, oldLayerData, [sameData |-> sameData])
  \/ \E f \in ChannelFields : UpdateColorField(f)
  \/ \E f \in ChannelFields : UpdateSizeField(f)
  \/ \E f \in ChannelFields : UpdateCoverageField(f)

SpecChannels == Init /\ [][NextChannels]_vars

\* Calls that may raise, by a caller that passes the last frame it got or
\* none, between changes of the binding
NextDiscipline ==
  \/ /\ ncalls < MaxChain
     /\ \E allData \in Datasets, filteredIndex \in {<<0>>, <<0, 1>>},
           oldLayerData \in {NoFrame, prev}, sameData \in BOOLEAN :
          FormatLayerData(allData, filteredIndex, oldLayerData,
                          [sameData |-> sameData])
  \/ \E b \in {1, 3, 5} : UpdateColumns(b)

SpecDiscipline == Init /\ [][NextDiscipline]_vars

\* One recompute cycle: a call, then invocations of the frame's functions in
\* any order on any records, between changes of the channel fields
NextInvoke ==
  \/ /\ ncalls < MaxCalls
     /\ \E oldLayerData \in {NoFrame, prev} :
          FormatLayerData(<< <<1, 0>>, <<2, 2>> >>, <<0, 1>>, oldLayerData,
                          [sameData |-> TRUE])
  \/ \E f \in ChannelFields : UpdateColorField(f)
  \/ \E f \in ChannelFields : UpdateSizeField(f)
  \/ \E f \in ChannelFields : UpdateCoverageField(f)
  \/ \E name \in ResolverNames, j \in 1..2 : Invoke(name, j)

SpecInvoke == Init /\ [][NextInvoke]_vars

\* The accessor memoizer: getS2Id called with any binding, in any order
NextMemo ==
  \/ \E b \in ColumnObjects : GetS2Id(b)
  \/ \E b \in ColumnObjects : UpdateColumns(b)

SpecMemo == Init /\ [][NextMemo]_vars

----------------------------------------------------------------------------
(* Properties.  They speak of the last call: its arguments, the frame it
   returned and the array (derived dataset) that frame refers to. *)

Called == call.outcome # "none"
Returned == call.outcome = "returned"
\* the last call got an accessor for its binding (line 152 did not raise)
Resolved == Called /\ call.getS2Id # TypeError
Old == call.oldLayerData

\* the derived dataset of the returned frame
Derived == heap.at[call.frame.data]

\* the last call returned the very array of the frame it was given
SameArray == call.frame.data = Old.data

\* what a rebuild from the last call's arguments yields with the geometry
\* cache as the call left it
RebuiltNow ==
  Rebuild(call.allData, call.filteredIndex, accs, call.getS2Id,
          dataToFeature.centroids).accu

\* C1 as stated: the previous dataset is reused if and only if a previous
\* frame is supplied, its derived dataset is non-empty, sameData is set and
\* its accessor is the one resolved in this call.
C1_ReuseIffNonEmpty ==
  Returned =>
    (SameArray <=>
       /\ Old.defined
       /\ Old.data # None
       /\ heap.at[Old.data] # <<>>
       /\ call.opt.sameData
       /\ Old.getS2Id = call.getS2Id)

\* C1 amended: the previous dataset is reused if and only if a previous frame
\* is supplied, it carries a derived dataset (an array, empty or not),
\* sameData is set and its accessor is the one resolved in this call; in
\* every other case the call rebuilds from filteredIndex into a new array.
C1_ReuseIffPresent ==
  Called =>
    /\ call.reused <=>
         /\ Old.defined
         /\ Old.data # None
         /\ call.opt.sameData
         /\ Old.getS2Id = call.getS2Id
    /\ call.reused => Returned /\ SameArray
    /\ Returned /\ ~call.reused => ~SameArray /\ Derived = RebuiltNow

\* an empty previous dataset was reused
C1_Witness ==
  /\ Returned /\ call.reused /\ SameArray
  /\ Derived = <<>>
  /\ call.filteredIndex # <<>>


\* C2: when a call is given the frame the preceding call returned, with
\* sameData set and the column binding unchanged, it returns the very same
\* array (same reference), leaves its content as it was and returns the same
\* accessor, so the next call under the same conditions does so again.
C2_IdempotentReuse ==
  [][ ( /\ ncalls' = ncalls + 1
        /\ call.outcome = "returned"
        /\ call'.oldLayerData = call.frame
        /\ call'.opt.sameData
        /\ call'.columns = call.columns )
      => /\ call'.outcome = "returned"
         /\ call'.frame.data = call.frame.data
         /\ call'.frame.getS2Id = call.frame.getS2Id
         /\ call.frame.data \in DOMAIN heap'.at
         /\ heap'.at[call.frame.data] = heap.at[call.frame.data]
         /\ heap'.next = heap.next ]_vars

\* the third call of a chain returned the non-empty array of the first,
\* under a filter that differs from the one it was built with
C2_Witness ==
  /\ Returned /\ call.chain >= 2
  /\ SameArray
  /\ Derived # <<>>
  /\ call.built.filteredIndex # call.filteredIndex

\* C3: when the binding resolves to an accessor and the frame supplied
\* carries another one, the call does not reuse even with sameData set: it
\* calls updateLayerMeta with the full raw dataset and the new accessor and
\* rebuilds from filteredIndex.
C3_InvalidationOnBindingChange ==
  (Resolved /\ Old.defined /\ Old.getS2Id # call.getS2Id) =>
    /\ ~call.reused
    /\ call.signalled
    /\ dataToFeature.allData = call.allData
    /\ dataToFeature.getS2Id = call.getS2Id
    /\ Returned => ~SameArray /\ Derived = RebuiltNow

\* a call with sameData set and a frame of another accessor rebuilt a
\* dataset that differs from the one of the frame
C3_Witness ==
  /\ Returned /\ Old.defined /\ Old.data # None
  /\ Old.getS2Id # call.getS2Id
  /\ call.opt.sameData
  /\ call.signalled /\ ~call.reused
  /\ Derived # <<>>
  /\ Old.data \in DOMAIN heap.at /\ Derived # heap.at[Old.data]


\* two bindings whose s2_id field has the same fieldIdx
SameFieldIdx(c1, c2) == Bindings[c1].s2_id.fieldIdx = Bindings[c2].s2_id.fieldIdx

\* C4: bindings with the same fieldIdx get the same accessor instance from
\* getS2Id, whether or not they are the same object, whatever calls with
\* other bindings were made before or in between.
C4_MemoByFieldIdx ==
  \A c1, c2 \in BindingIds :
    SameFieldIdx(c1, c2) =>
      /\ (got[c1] # None /\ got[c2] # None) => got[c1] = got[c2]
      /\ LET r1 == getS2IdCall(memo, accs, c1)
             r2 == getS2IdCall(r1.memo, r1.accs, c2)
         IN /\ r1.getS2Id = r2.getS2Id
            /\ got[c1] # None => r1.getS2Id = got[c1]

\* every binding has been passed to getS2Id; bindings 1 and 2 got the same
\* instance, created for binding 2, with other instances created in between
C4_Witness ==
  /\ \A b \in BindingIds : got[b] # None
  /\ got[1] = got[2]
  /\ accs[got[1]].s2_id = 2
  /\ Len(accs) = 3 /\ got[1] = 2

\* C5 as stated: a binding that is structurally equal to the one the
\* previous frame was made under, but another object, gets a different
\* accessor, so the call signals geometry recomputation and rebuilds.
C5_IdentityIsKey ==
  ( /\ Called /\ Old.defined
    /\ call.oldMadeBy # call.columns
    /\ Bindings[call.oldMadeBy] = Bindings[call.columns] )
  => /\ Old.getS2Id # call.getS2Id
     /\ call.signalled
     /\ ~call.reused

\* C5 amended: the fieldIdx of the s2_id field is the sole cache key.  A
\* binding that is another object than the one the previous frame was made
\* under gets the same accessor when the fieldIdx is the same (so no geometry
\* recomputation is signalled, and the previous dataset is reused when it is
\* present and sameData is set) and a different accessor, with recomputation
\* and a rebuild, only when the fieldIdx differs.
C5_FieldIdxIsKey ==
  ( /\ Called /\ Old.defined
    /\ call.oldMadeBy # call.columns )
  => IF SameFieldIdx(call.oldMadeBy, call.columns)
     THEN /\ Old.getS2Id = call.getS2Id
          /\ ~call.signalled
          /\ call.reused <=> (Old.data # None /\ call.opt.sameData)
     ELSE /\ Old.getS2Id # call.getS2Id
          /\ call.signalled
          /\ ~call.reused

\* a call under a structurally equal but distinct binding reused the
\* previous dataset without telling the geometry component
C5_Witness ==
  /\ Returned /\ Old.defined
  /\ call.oldMadeBy # call.columns
  /\ Bindings[call.oldMadeBy] = Bindings[call.columns]
  /\ call.reused /\ SameArray /\ ~call.signalled
  /\ Derived # <<>>


\* whether the geometry cache holds a centroid for the raw index at
\* position k of the last call's filteredIndex
HasCentroid(k) ==
  CentroidAt(dataToFeature.centroids, call.filteredIndex[k]) # None

\* the positions of filteredIndex whose raw index has a centroid
WithGeometry == { k \in DOMAIN call.filteredIndex : HasCentroid(k) }

\* C6: a call without previous frame returns a dataset no longer than
\* filteredIndex, and as long exactly when every index in filteredIndex has a
\* centroid in the geometry cache.
C6_LengthBound ==
  (Returned /\ ~Old.defined) =>
    /\ Len(Derived) <= Len(call.filteredIndex)
    /\ Len(Derived) = Len(call.filteredIndex)
         <=> \A k \in DOMAIN call.filteredIndex : HasCentroid(k)

\* a first call over two indices of which one has no centroid returned one
\* record
C6_Witness ==
  /\ Returned /\ ~Old.defined
  /\ Len(call.filteredIndex) = 2
  /\ Len(Derived) = 1
  /\ ~HasCentroid(2)

\* C7: a rebuilt dataset holds exactly one record for each position i of
\* filteredIndex whose raw index has a centroid, in increasing order of i,
\* with index = i (0-based position in filteredIndex), data = the raw row,
\* id = accessor(row) and centroid = the cached centroid of the raw index;
\* positions without centroid give no record.
C7_RebuildProcedure ==
  (Returned /\ ~call.reused) =>
    /\ Len(Derived) = Cardinality(WithGeometry)
    /\ \A j \in DOMAIN Derived :
         LET i == Derived[j].index + 1
         IN /\ i \in WithGeometry
            /\ Cardinality({ k \in WithGeometry : k <= i }) = j
            /\ Derived[j].data = call.allData[call.filteredIndex[i] + 1]
            /\ Derived[j].id =
                 ApplyAccessor(accs, call.getS2Id, call.allData[call.filteredIndex[i] + 1])
            /\ Derived[j].centroid =
                 CentroidAt(dataToFeature.centroids, call.filteredIndex[i])

\* filteredIndex [0, 1] with a centroid for raw index 1 only: the one record
\* returned has index 1, the row, id and centroid of raw index 1
C7_Witness ==
  /\ Returned /\ ~call.reused
  /\ call.filteredIndex = <<0, 1>>
  /\ ~HasCentroid(1) /\ HasCentroid(2)
  /\ Derived = << [index |-> 1, data |-> <<0, 2>>, id |-> 2, centroid |-> 102] >>

\* the resolver is callable and gives v for every record of the dataset
CallableGiving(resolver, v) ==
  /\ Callable(resolver)
  /\ \A j \in DOMAIN Derived : Resolve(resolver, Derived[j]) = v

\* the resolver is the constant v itself, which is what the rendering
\* boundary takes as the value of every record
ConstantGiving(resolver, v) ==
  /\ ~Callable(resolver)
  /\ resolver.kind = "constant" /\ resolver.value = v
  /\ \A j \in DOMAIN Derived : Resolve(resolver, Derived[j]) = v

MetaEvents == { k \in DOMAIN call.events : call.events[k] = "updateLayerMeta" }

\* C9: a call whose binding resolves to an accessor signals geometry recomputation (updateLayerMeta with the full
\* raw dataset and the current accessor) exactly when no previous frame is
\* supplied or the frame's accessor differs from the current one, and then
\* before any centroid is read for the rebuild and before the hexagon handles
\* are read: the records carry the recomputed centroids and the frame the
\* recomputed handles.
C9_InvalidationTriggerAndOrder ==
  Resolved =>
    /\ call.signalled <=> (~Old.defined \/ Old.getS2Id # call.getS2Id)
    /\ MetaEvents = IF call.signalled THEN {1} ELSE {}
    /\ call.signalled =>
         /\ dataToFeature.allData = call.allData
         /\ dataToFeature.getS2Id = call.getS2Id
         /\ Returned =>
              /\ call.frame.hexagonVertices = dataToFeature.hexagonVertices
              /\ call.frame.hexagonCenter = dataToFeature.hexagonCenter
              /\ call.frame.hexagonVertices # Old.hexagonVertices
              /\ \A j \in DOMAIN Derived :
                   Derived[j].centroid =
                     CentroidOf(ApplyAccessor(accs, call.getS2Id, Derived[j].data))

\* a call given a frame of another accessor recomputed the geometry, which
\* held other centroids before, and returned records with the new centroids
C9_Witness ==
  /\ Returned /\ Old.defined /\ Old.getS2Id # call.getS2Id
  /\ call.signalled
  /\ call.events = <<"updateLayerMeta", "centroid", "centroid", "handles">>
  /\ Derived # <<>>
  /\ dataToFeature.hexagonVertices = 2

\* C10 as stated: whenever a call reuses the previous dataset, that dataset
\* is the one a rebuild from the call's own inputs would have produced.
C10_ReuseNeverStale ==
  (Returned /\ call.reused) => Derived = RebuiltNow

\* C10 amended: the reuse test compares the accessor and the sameData flag
\* only.  Whenever a call reuses the previous dataset, that dataset was built
\* with the accessor of this call, and it is the one a rebuild would produce
\* if the raw records, the filtered indices and the geometry cache are those
\* it was built from; a change of these is not detected.
C10_ReuseSameAccessor ==
  (Returned /\ call.reused) =>
    /\ call.built.getS2Id = call.getS2Id
    /\ ( /\ call.built.allData = call.allData
         /\ call.built.filteredIndex = call.filteredIndex
         /\ call.built.centroids = dataToFeature.centroids )
       => Derived = RebuiltNow

\* a call reused a dataset built from another filteredIndex, which a
\* rebuild would not have produced
C10_Witness ==
  /\ Returned /\ call.reused
  /\ call.built.getS2Id = call.getS2Id
  /\ call.built.allData = call.allData
  /\ call.built.filteredIndex # call.filteredIndex
  /\ Derived # RebuiltNow

----------------------------------------------------------------------------
(* Error conditions *)

\* the rows of the raw datasets
Rows == UNION { { allData[k] : k \in DOMAIN allData } : allData \in Datasets }

\* the s2_id role of the object is absent or not bound to a field
Unbound(columns) ==
  ~HasS2IdRole(columns) \/ Bindings[columns].s2_id.fieldIdx = -1

\* C11: getS2Id(columns) raises for no column object, and for an object whose
\* s2_id role is absent or unbound the accessor it returns reads undefined
\* from every record.
C11_NoErrorConditions ==
  \A c \in ColumnObjects :
    /\ got[c] # TypeError
    /\ (got[c] # None /\ Unbound(c)) =>
         \A d \in Rows : ApplyAccessor(accs, got[c], d) = Undefined

\* C12: every call completes without raising, and when it rebuilds, every
\* position of filteredIndex that has a raw record and a centroid appears in
\* the derived dataset.
C12_BestEffort ==
  Called =>
    /\ Returned
    /\ ~call.reused =>
         \A k \in DOMAIN call.filteredIndex :
           (call.filteredIndex[k] + 1 \in DOMAIN call.allData /\ HasCentroid(k)) =>
             \E j \in DOMAIN Derived : Derived[j].index = k - 1

----------------------------------------------------------------------------
(* Reuse across filter changes *)

\* what the last rebuilding call built, from the inputs it had
LastBuilt ==
  Rebuild(call.built.allData, call.built.filteredIndex, accs,
          call.built.getS2Id, call.built.centroids).accu

\* C13: a call given a frame that carries a derived dataset, with sameData set
\* and the frame's accessor equal to the resolved one, returns the array of
\* that frame whatever filteredIndex is, and its content is still what the
\* last rebuilding call built.
C13_LenientReuse ==
  ( /\ Called
    /\ Old.defined /\ Old.data # None
    /\ call.opt.sameData
    /\ Old.getS2Id = call.getS2Id ) =>
      /\ Returned /\ call.reused
      /\ SameArray
      /\ Derived = LastBuilt

\* a call of a chain returned the dataset built under an earlier filter,
\* which differs from what its own filteredIndex would give
C13_Witness ==
  /\ Returned /\ call.reused /\ call.chain >= 1
  /\ call.filteredIndex # call.built.filteredIndex
  /\ Derived = LastBuilt
  /\ Derived # RebuiltNow

----------------------------------------------------------------------------
(* Channel activity *)

\* the resolver is the function over the given scale and field of the
\* current config, and gives the scaled field value of every record
ActiveWith(resolver, scale, field, defaultValue) ==
  /\ Callable(resolver)
  /\ resolver.scale = scale /\ resolver.field = field
  /\ \A j \in DOMAIN Derived :
       Resolve(resolver, Derived[j]) =
         getEncodedChannelValue(scale, Derived[j].data, field, defaultValue)

\* the resolver is the constant fallback v and holds no scale
InactiveWith(resolver, v) ==
  /\ ~Callable(resolver)
  /\ resolver.scale = NoScale
  /\ resolver.value = v

\* the three scales as the config of the last call defines them
ColorScaleNow ==
  getVisChannelScale(call.config.colorScale, call.config.colorDomain,
                     [k \in DOMAIN call.config.visConfig.colorRange.colors |->
                        hexToRgb(call.config.visConfig.colorRange.colors[k])], 0)
SizeScaleNow ==
  getVisChannelScale(call.config.sizeScale, call.config.sizeDomain,
                     call.config.visConfig.sizeRange, 0)
CoverageScaleNow ==
  getVisChannelScale(call.config.coverageScale, call.config.coverageDomain,
                     call.config.visConfig.coverageRange, 0)

\* C14: in every call that returns, reusing or not, each channel's resolver
\* is the function over the scale of the current config exactly when the
\* channel's field is set in the current config, and the constant fallback
\* otherwise, each channel by its own field only.
C14_ChannelsFollowConfig ==
  Returned =>
    /\ IF call.config.colorField # Null
       THEN ActiveWith(call.frame.getColor, ColorScaleNow,
                       call.config.colorField, NoValueColor)
       ELSE InactiveWith(call.frame.getColor, call.config.color)
    /\ IF call.config.sizeField # Null
       THEN ActiveWith(call.frame.getElevation, SizeScaleNow,
                       call.config.sizeField, 0)
       ELSE InactiveWith(call.frame.getElevation, 0)
    /\ IF call.config.coverageField # Null
       THEN ActiveWith(call.frame.getCoverage, CoverageScaleNow,
                       call.config.coverageField, 0)
       ELSE InactiveWith(call.frame.getCoverage, 1)

\* a call reused the dataset of a frame whose size resolver was the constant
\* and whose color resolver was a function, and returned the opposite: the
\* size channel active, the color channel inactive
C14_Witness ==
  /\ Returned /\ call.reused /\ Derived # <<>>
  /\ ~Callable(Old.getElevation) /\ Callable(call.frame.getElevation)
  /\ Callable(Old.getColor) /\ ~Callable(call.frame.getColor)
  /\ ~Callable(call.frame.getCoverage)

----------------------------------------------------------------------------
(* Invocation of the frame's functions *)

\* no two recorded invocations of one function on one record differ in value
SameValues(seen) ==
  \A e1, e2 \in seen :
    (e1.resolver = e2.resolver /\ e1.record = e2.record) => e1.value = e2.value

\* C15: an invocation of getElevation, getColor, getCoverage or getS2Id on a
\* derived record, after any other invocations of the cycle, leaves the
\* derived dataset, the raw records, the memoize cache, the config and the
\* geometry cache as they were and returns a value, the one every other
\* invocation on that record returned.
C15_ResolversPure ==
  [][ (ncalls' = ncalls /\ call'.seen # call.seen) =>
        /\ UNCHANGED <<config, memo, accs, heap, dataToFeature, prev>>
        /\ call'.allData = call.allData /\ call'.frame = call.frame
        /\ call.seen \subseteq call'.seen
        /\ \A e \in call'.seen : ~e.threw
        /\ SameValues(call'.seen) ]_vars

----------------------------------------------------------------------------
(* Statelessness at the call boundary *)

\* the last call's arguments given to a layer just constructed, with the
\* config of the last call
OnFreshLayer ==
  formatLayerData(call.config, [k \in {} |-> None], <<>>,
                  [next |-> 1, at |-> <<>>],
                  [centroids |-> <<>>, hexagonVertices |-> 0, hexagonCenter |-> 0,
                   allData |-> <<>>, getS2Id |-> None],
                  call.allData, call.filteredIndex, NoFrame, call.opt)

\* the field index an accessor instance of store A reads
FieldIdxOf(A, a) == Bindings[A[a].s2_id].s2_id.fieldIdx

\* C16: whatever calls came before, a call without previous frame raises
\* exactly when the same call on a new layer does, signals geometry
\* recomputation when its binding resolves, and returns a newly built dataset,
\* resolvers and centroids equal to those of the same call on a new layer; the
\* accessor may be an instance created earlier, reading the same field.
C16_StatelessWithoutFrame ==
  (Called /\ ~Old.defined) =>
    /\ (call.outcome = "threw") = OnFreshLayer.threw
    /\ Resolved => call.signalled /\ OnFreshLayer.signalled
    /\ Resolved => dataToFeature.centroids = OnFreshLayer.dataToFeature.centroids
    /\ Returned =>
         /\ ~call.reused
         /\ Derived = OnFreshLayer.heap.at[OnFreshLayer.frame.data]
         /\ Derived = RebuiltNow
         /\ call.frame.getElevation = OnFreshLayer.frame.getElevation
         /\ call.frame.getColor = OnFreshLayer.frame.getColor
         /\ call.frame.getCoverage = OnFreshLayer.frame.getCoverage
         /\ FieldIdxOf(accs, call.getS2Id) =
              FieldIdxOf(OnFreshLayer.accs, OnFreshLayer.getS2Id)

\* the second call on a layer, without previous frame, under a binding object
\* other than the one the returned accessor instance was created for, after
\* a first call with other data
C16_Witness ==
  /\ Returned /\ ~Old.defined /\ ncalls = 2
  /\ prev.data # 1
  /\ accs[call.getS2Id].s2_id # call.columns
  /\ dataToFeature.hexagonVertices = 2
  /\ Derived # <<>>

----------------------------------------------------------------------------
(* Reuse and geometry invalidation *)

\* C17: no call both signals geometry recomputation and reuses the previous
\* dataset: a signalling call takes the rebuild branch and a reusing call does
\* not signal.  A rebuild without signal happens exactly when the frame's
\* accessor is the resolved one and sameData is not set or the frame carries
\* no dataset.
C17_ReuseExcludesInvalidation ==
  Called =>
    /\ ~(call.signalled /\ call.reused)
    /\ (call.signalled /\ Returned) => ~SameArray /\ Derived = RebuiltNow
    /\ call.reused => ~call.signalled /\ MetaEvents = {}
    /\ (Resolved /\ ~call.reused /\ ~call.signalled) <=>
         /\ Old.defined /\ Old.getS2Id = call.getS2Id
         /\ ~call.opt.sameData \/ Old.data = None

\* a call with sameData set, given a frame of the resolved accessor that
\* carries no dataset, rebuilt without signalling and left the geometry cache
\* as it was
C17_Witness ==
  /\ Returned /\ ~call.reused /\ ~call.signalled
  /\ Old.defined /\ Old.data = None /\ call.opt.sameData
  /\ Old.getS2Id = call.getS2Id
  /\ call.frame.hexagonVertices = Old.hexagonVertices
  /\ Derived # <<>>

----------------------------------------------------------------------------
(* Geometry cache and accessor under caller discipline *)

\* C18: when every call so far was given no frame or the frame returned by
\* the call immediately before it, the accessor with which the geometry cache
\* was last recomputed is the instance carried by the frame just returned,
\* and the cache was computed from the raw data of a call made with it.
C18_GeometryFollowsAccessor ==
  (Returned /\ call.disciplined) =>
    /\ dataToFeature.getS2Id = call.frame.getS2Id
    /\ call.frame.getS2Id = call.getS2Id
    /\ call.signalled => dataToFeature.allData = call.allData

\* a disciplined caller's third call, given the frame of the second, after
\* the binding went from field 0 to field 1 and back: the first accessor
\* instance is returned again and the geometry is recomputed with it
C18_Witness ==
  /\ Returned /\ call.disciplined /\ ncalls = 3
  /\ Old.defined /\ Old.getS2Id = 2
  /\ call.getS2Id = 1 /\ Len(accs) = 2
  /\ call.signalled
  /\ dataToFeature.getS2Id = 1

----------------------------------------------------------------------------
(* Freshness of memoized accessors *)

\* r[c.s2_id.fieldIdx]: the cell of record d the binding names, undefined
\* when the record has no such cell
CellOf(columns, d) ==
  LET idx == Bindings[columns].s2_id.fieldIdx
  IN IF idx + 1 \in DOMAIN d THEN d[idx + 1] ELSE Undefined

\* C19: after any calls of getS2Id, the accessor a binding was given, and the
\* one it would be given now, read from every record the cell the binding's
\* own field index names, also when the instance was created for another
\* binding object.
C19_AccessorNeverStale ==
  \A c \in BindingIds : \A d \in Rows :
    /\ got[c] # None => ApplyAccessor(accs, got[c], d) = CellOf(c, d)
    /\ LET r == getS2IdCall(memo, accs, c)
       IN ~r.threw /\ ApplyAccessor(r.accs, r.getS2Id, d) = CellOf(c, d)

\* binding 2 was given the instance created for binding 1, an equal but
\* distinct object, after instances for the other field indices were made,
\* and it reads cell 0 of a record whose cells differ
C19_Witness ==
  /\ \A b \in BindingIds : got[b] # None
  /\ accs[got[2]].s2_id = 1
  /\ got[2] = 3 /\ Len(accs) = 3
  /\ ApplyAccessor(accs, got[2], <<1, 0>>) = 1
  /\ ApplyAccessor(accs, got[3], <<1, 0>>) = 0

============================================================================
